---- MODULE Spec2Model ----
(***************************************************************************)
(* The task store of TaskExplorer (src/context/TaskContext.tsx, the        *)
(* Supabase-backed TaskProvider) together with the remote rows it mirrors  *)
(* and the statistics the analytics screen derives from it                 *)
(* (src/app/(tabs)/analytics.tsx); further the TaskProvider of the same    *)
(* file that keeps its lists in AsyncStorage, and the useAuth hook         *)
(* (src/hooks/use-auth.ts).                                                *)
(*                                                                         *)
(* Every context operation is one action: the handler runs from its call   *)
(* to the settlement of its promise, each remote call inside it either     *)
(* succeeding or returning an error.  Time is counted in ticks of which    *)
(* TicksPerDay make a day; an operation reads the clock at most once and  *)
(* time passes unseen between two readings.                                *)
(***************************************************************************)
EXTENDS Integers, Sequences, FiniteSets, TLC

VARIABLES
    now,            \* the instant of the last clock reading (new Date())
    tz,             \* the device's offset from UTC, in ticks
    userId,         \* useState<string | null>: the signed-in user
    categories,     \* useState<Category[]>
    tasks,          \* useState<Task[]>
    dbCategories,   \* remote table "categories", in creation order
    dbTasks,        \* remote table "tasks", in created_at order
    history,        \* remote table "analytics_history"
    nextCategoryId, \* ids the remote side has handed out so far
    nextTaskId,
    rendered,       \* what the analytics screen last derived (useMemo)
    calls,          \* how many operations have been issued
    last,           \* the operation that settled last, and how
    inflight,       \* the operations awaiting an answer, with their closures
    storage,        \* AsyncStorage of the device-storage TaskProvider
    auth            \* the state of the useAuth hook and the client's session

vars == <<now, tz, userId, categories, tasks, dbCategories, dbTasks, history,
          nextCategoryId, nextTaskId, rendered, calls, last, inflight,
          storage, auth>>

(* ------------------------------ bounds --------------------------------- *)
MaxTime == 2
TicksPerDay == 2
MaxCategories == 2
MaxTasks == 2
MaxStatTasks == 40
MaxStatDaily == 2
MaxCalls == 7
MaxAsyncCalls == 3
MaxInFlight == 3
MaxRemoteCalls == 3
MaxLocalCalls == 3
MaxLoadCalls == 6
MaxAuthCalls == 4

Users == {"u1"}
NoUser == "null"
TzOffsets == {-1, 0, 1}
Titles == {"a", "b"}
NewTitles == {"a"}
CategoryTitles == {"c"}

(* An optional timestamp: {} is null / undefined, {t} is the instant t.    *)
NoDate == {}
DateAt(t) == {t}

(* ------------------------------ helpers -------------------------------- *)
MapSeq(s, f(_)) == [i \in 1..Len(s) |-> f(s[i])]

Range(s) == {s[i] : i \in 1..Len(s)}

(* Every arrangement of the elements of s, which holds no element twice.   *)
Permutations_(s) ==
    {p \in [1..Len(s) -> Range(s)] : \A i, j \in 1..Len(s) : i # j => p[i] # p[j]}

(* new Date(x).toDateString(): the calendar date in the device's zone.     *)
toDateString(t) == (t + tz) \div TicksPerDay

(* new Date().toISOString().split('T')[0]: the calendar date in UTC.       *)
toISODate(t) == t \div TicksPerDay

(* A timestamp column compared with a date literal: the literal is that    *)
(* date's midnight in UTC, and null compares to nothing.                   *)
TimestampLtDate(ts, date) == \E d \in ts : d < date * TicksPerDay

(* ------------------------- rows and app objects ------------------------ *)
(* The "Convert to app format" maps of loadData, addCategory and addTask.  *)
mappedCategory(cat) ==
    [id |-> cat.id, userId |-> cat.user_id, title |-> cat.title,
     orderIndex |-> cat.order_index]

mappedTask(task) ==
    [id |-> task.id, userId |-> task.user_id, categoryId |-> task.category_id,
     title |-> task.title, isCompleted |-> task.is_completed,
     isDaily |-> task.is_daily, lastCompletedDate |-> task.last_completed_date]

(* What an operation leaves behind for the caller.                         *)
Settled(op, outcome, err, aerr, reset) ==
    [op |-> op, outcome |-> outcome, err |-> err, aerr |-> aerr, reset |-> reset,
     saved |-> "none"]

(* ------------------------------ remote --------------------------------- *)
(* select * from categories where user_id = uid order by order_index: the  *)
(* order among equal indices is the database's choice.                     *)
SelectCategories(db, uid) ==
    LET rows == SelectSeq(db, LAMBDA r : r.user_id = uid)
    IN  {p \in Permutations_(rows) :
            \A i, j \in 1..Len(p) : i < j => p[i].order_index <= p[j].order_index}

(* select * from tasks where user_id = uid order by created_at.            *)
SelectTasks(db, uid) == SelectSeq(db, LAMBDA r : r.user_id = uid)

(* ------------------------------ loadData ------------------------------- *)
(* The stores loadData(uid) can leave: the old ones when a select fails    *)
(* (the error is logged, not thrown), else the mapped rows.                *)
loadData(uid, cats, tks, dbC, dbT) ==
    IF uid = NoUser
    THEN {[categories |-> cats, tasks |-> tks, err |-> FALSE]}
    ELSE {[categories |-> cats, tasks |-> tks, err |-> TRUE]}
         \cup {[categories |-> MapSeq(p, mappedCategory),
                tasks |-> MapSeq(SelectTasks(dbT, uid), mappedTask),
                err |-> FALSE] : p \in SelectCategories(dbC, uid)}

(* ------------------------ remote functions (SQL) ----------------------- *)
(* rpc reset_daily_tasks(): un-completes every daily row last completed    *)
(* before today, today being the database's (UTC) date.                    *)
reset_daily_tasks(db, t) ==
    MapSeq(db, LAMBDA r :
        IF r.is_daily /\ TimestampLtDate(r.last_completed_date, toISODate(t))
        THEN [r EXCEPT !.is_completed = FALSE] ELSE r)

(* round(100 * completed / total), halves up, in exact arithmetic.         *)
RoundedShare(completed, total) ==
    IF total = 0 THEN 0 ELSE (200 * completed + total) \div (2 * total)

(* The day's row save_daily_analytics computes from the user's tasks.      *)
analyticsEntry(db, uid, t) ==
    LET rows == SelectTasks(db, uid)
        done == SelectSeq(rows, LAMBDA r : r.is_completed)
    IN  [user_id |-> uid, date |-> toISODate(t),
         total_tasks |-> Len(rows), completed_tasks |-> Len(done),
         completion_percentage |-> RoundedShare(Len(done), Len(rows))]

(* An insert of the day's row without ON CONFLICT.                         *)
insert_daily_analytics(hist, db, uid, t) == Append(hist, analyticsEntry(db, uid, t))

(* rpc save_daily_analytics(p_user_id): the row of (user, today) is        *)
(* overwritten when it exists and inserted otherwise.                      *)
save_daily_analytics(hist, db, uid, t) ==
    LET entry == analyticsEntry(db, uid, t)
        same(h) == h.user_id = uid /\ h.date = entry.date
    IN  IF \E i \in 1..Len(hist) : same(hist[i])
        THEN MapSeq(hist, LAMBDA h : IF same(h) THEN entry ELSE h)
        ELSE Append(hist, entry)

(* What a successful save_daily_analytics did to the history: a new row,  *)
(* another row in place of the day's row, or the day's row written again.  *)
Saved(l, hist, saved) ==
    [l EXCEPT !.saved = IF Len(saved) > Len(hist) THEN "inserted"
                        ELSE IF saved # hist THEN "replaced"
                        ELSE "rewritten"]

(* ----------------------- checkAndResetDailyTasks ----------------------- *)
(* The client-side staleness test: a daily task whose last completion     *)
(* falls on another local calendar date than today.                        *)
tasksToReset(tks, t) ==
    SelectSeq(tks, LAMBDA task :
        /\ task.isDaily
        /\ task.lastCompletedDate # NoDate
        /\ \E d \in task.lastCompletedDate : toDateString(d) # toDateString(t))

(* The reset update without its .eq("is_daily", true).                     *)
ResetMatchesAnyTask(r, uid, t) ==
    /\ r.user_id = uid
    /\ TimestampLtDate(r.last_completed_date, toISODate(t))

(* The rows the reset update matches: .eq(user_id).eq(is_daily, true)      *)
(* .lt(last_completed_date, <today's UTC date>).                           *)
ResetMatches(r, uid, t) ==
    /\ r.user_id = uid
    /\ r.is_daily = TRUE
    /\ TimestampLtDate(r.last_completed_date, toISODate(t))

resetUpdate(db, uid, t) ==
    MapSeq(db, LAMBDA r :
        IF ResetMatches(r, uid, t) THEN [r EXCEPT !.is_completed = FALSE] ELSE r)

(* A check that marks the daily tasks reset in the store although its     *)
(* update failed.                                                          *)
resetFailedMarkedLocally(cats, tks, dbT) ==
    [categories |-> cats,
     tasks |-> MapSeq(tks, LAMBDA task :
                  IF task.isDaily THEN [task EXCEPT !.isCompleted = FALSE] ELSE task),
     dbTasks |-> dbT, err |-> TRUE, reset |-> FALSE]

(* The reset update came back with an error: it is thrown to the catch     *)
(* block, which logs it; nothing was written and nothing is set.           *)
resetFailed(cats, tks, dbT) ==
    [categories |-> cats, tasks |-> tks, dbTasks |-> dbT, err |-> TRUE, reset |-> FALSE]

(* Every way one rollover check at instant t can end.                      *)
checkOutcomes(uid, cats, tks, dbC, dbT, t) ==
    IF uid = NoUser
    THEN {[categories |-> cats, tasks |-> tks, dbTasks |-> dbT,
           err |-> FALSE, reset |-> FALSE]}
    ELSE IF Len(tasksToReset(tks, t)) > 0
    THEN LET db1 == resetUpdate(dbT, uid, t)
         IN  {resetFailed(cats, tks, dbT)}
             \cup {[categories |-> l.categories, tasks |-> l.tasks,
                    dbTasks |-> IF rpcOk THEN reset_daily_tasks(db1, t) ELSE db1,
                    err |-> l.err \/ ~rpcOk, reset |-> TRUE] :
                   l \in loadData(uid, cats, tks, dbC, db1), rpcOk \in BOOLEAN}
    ELSE {[categories |-> cats, tasks |-> tks,
           dbTasks |-> IF rpcOk THEN reset_daily_tasks(dbT, t) ELSE dbT,
           err |-> ~rpcOk, reset |-> FALSE] : rpcOk \in BOOLEAN}

(* --------------------------- checkDailyReset --------------------------- *)
(* The device-storage provider's check at instant t, lastResetDate being   *)
(* the stored item (absent before the first reset): the tasks it sets and  *)
(* persists, and the date it stores.                                       *)
checkDailyReset(tks, lastResetDate, t) ==
    LET today == toDateString(t)
    IN  IF lastResetDate # DateAt(today)
        THEN [tasks |-> MapSeq(tks, LAMBDA task :
                  IF task.isDaily
                  THEN [task EXCEPT !.isCompleted = FALSE,
                                    !.lastCompletedDate = DateAt(t)]
                  ELSE task),
              lastResetDate |-> DateAt(today)]
        ELSE [tasks |-> tks, lastResetDate |-> lastResetDate]

(* The device-storage provider's deleteCategory that keeps the tasks.      *)
localDeleteCategoryKeepingTasks(cats, tks, categoryId) ==
    [categories |-> SelectSeq(cats, LAMBDA cat : cat.id # categoryId), tasks |-> tks]

(* The device-storage provider's deleteCategory: the lists it hands to     *)
(* saveData, which sets them once they are written.                        *)
localDeleteCategory(cats, tks, categoryId) ==
    [categories |-> SelectSeq(cats, LAMBDA cat : cat.id # categoryId),
     tasks |-> SelectSeq(tks, LAMBDA task : task.categoryId # categoryId)]

(* ------------------------ IEEE-754 double arithmetic ------------------- *)
(* JavaScript numbers are binary64.  A positive double is kept as its      *)
(* significand, a sequence of Precision binary digits that starts with 1,  *)
(* and the exponent e of its last digit: the value is m * 2^e.             *)
Precision == 53
Zero == [m |-> << >>, e |-> 0]

RECURSIVE NatBits(_)
NatBits(n) == IF n = 0 THEN << >> ELSE Append(NatBits(n \div 2), n % 2)

RECURSIVE BitsNat(_)
BitsNat(b) ==
    IF b = << >> THEN 0 ELSE 2 * BitsNat(SubSeq(b, 1, Len(b) - 1)) + b[Len(b)]

(* b + 1, one digit longer when every digit of b is 1.                     *)
BitsSucc(b) ==
    LET zeros == {i \in 1..Len(b) : b[i] = 0}
    IN  IF zeros = {} THEN <<1>> \o [i \in 1..Len(b) |-> 0]
        ELSE LET j == CHOOSE i \in zeros : \A k \in zeros : k <= i
             IN  [i \in 1..Len(b) |-> IF i < j THEN b[i] ELSE IF i = j THEN 1 ELSE 0]

(* The double nearest to bits * 2^e (plus a nonzero fraction of the last   *)
(* digit when sticky), ties to the even significand; bits starts with 1    *)
(* and has more than Precision digits.                                     *)
RoundToDouble(bits, sticky, e) ==
    LET kept == SubSeq(bits, 1, Precision)
        dropped == Len(bits) - Precision
        guard == bits[Precision + 1]
        below == sticky \/ \E i \in (Precision + 2)..Len(bits) : bits[i] = 1
        up == guard = 1 /\ (below \/ kept[Precision] = 1)
        m1 == IF up THEN BitsSucc(kept) ELSE kept
    IN  IF Len(m1) > Precision
        THEN [m |-> SubSeq(m1, 1, Precision), e |-> e + dropped + 1]
        ELSE [m |-> m1, e |-> e + dropped]

(* 2^j modulo t, for j <= 54 and t below 2^15.                    *)
PowMod(j, t) ==
    IF j <= 27 THEN (2 ^ j) % t
    ELSE (((2 ^ 27) % t) * ((2 ^ (j - 27)) % t)) % t

(* The first n binary digits of r / t after the point, for r < t, and      *)
(* the remainder left: digit i is the whole part of 2 * (r * 2^(i-1) mod t) *)
(* over t.                                                                 *)
QuotientBits(r, t, n) ==
    [bits |-> [i \in 1..n |-> (2 * ((r * PowMod(i - 1, t)) % t)) \div t],
     rem |-> (r * PowMod(n, t)) % t]

(* The least k with c * 2^k >= t.                                          *)
RECURSIVE Shift(_, _)
Shift(c, t) == IF c >= t THEN 0 ELSE 1 + Shift(2 * c, t)

Pow2(k) == 2 ^ k

(* c / t for integers 0 <= c <= t, t > 0.                                  *)
FDiv(c, t) ==
    IF c = 0 THEN Zero
    ELSE LET k == Shift(c, t)
             q == QuotientBits(c * Pow2(k) - t, t, Precision)
         IN  RoundToDouble(<<1>> \o q.bits, q.rem > 0, 0 - k - Precision)

(* The digits of n, padded with leading zeros to k digits.                 *)
Digits(n, k) == [i \in 1..k |-> (n \div (2 ^ (k - i))) % 2]

(* The digits of b * n + carry, for a small integer n, a limb of at most   *)
(* eight digits at a time from the low end.                                 *)
RECURSIVE MulBits(_, _, _)
MulBits(b, n, carry) ==
    IF b = << >> THEN NatBits(carry)
    ELSE LET k == IF Len(b) < 8 THEN Len(b) ELSE 8
             v == BitsNat(SubSeq(b, Len(b) - k + 1, Len(b))) * n + carry
         IN  MulBits(SubSeq(b, 1, Len(b) - k), n, v \div (2 ^ k)) \o Digits(v % (2 ^ k), k)

(* x * n for a double x and an integer n > 1.                              *)
FMul(x, n) ==
    IF x = Zero THEN Zero ELSE RoundToDouble(MulBits(x.m, n, 0), FALSE, x.e)

(* Math.round(x) for x >= 0: the integer floor(x + 0.5).                   *)
MathRound(x) ==
    IF x = Zero THEN 0
    ELSE IF x.e >= 0 THEN BitsNat(x.m) * Pow2(x.e)
    ELSE LET f == 0 - x.e
             whole == IF f >= Len(x.m) THEN 0 ELSE BitsNat(SubSeq(x.m, 1, Len(x.m) - f))
             half == IF f > Len(x.m) THEN 0 ELSE x.m[Len(x.m) - f + 1]
         IN  whole + half

(* ------------------------------ analytics ------------------------------ *)
(* total > 0 ? Math.round((completed / total) * 100) : 0                   *)
percentage(completed, total) ==
    IF total > 0 THEN MathRound(FMul(FDiv(completed, total), 100)) ELSE 0

(* dailyStats with missed counting the daily tasks left undone.            *)
dailyStatsMissedDaily(tks) ==
    LET total == Len(tks)
        completed == Len(SelectSeq(tks, LAMBDA t : t.isCompleted))
    IN  [total |-> total, completed |-> completed,
         missed |-> Len(SelectSeq(tks, LAMBDA t : t.isDaily /\ ~t.isCompleted)),
         percentage |-> percentage(completed, total)]

dailyStats(tks) ==
    LET total == Len(tks)
        completed == Len(SelectSeq(tks, LAMBDA t : t.isCompleted))
    IN  [total |-> total, completed |-> completed, missed |-> total - completed,
         percentage |-> percentage(completed, total)]

(* categoryStats without the filter on categoryId.                         *)
categoryStatsOfAllTasks(cats, tks) ==
    MapSeq(cats, LAMBDA category :
        LET completed == Len(SelectSeq(tks, LAMBDA t : t.isCompleted))
        IN  [id |-> category.id, title |-> category.title,
             total |-> Len(tks), completed |-> completed,
             percentage |-> percentage(completed, Len(tks))])

categoryStats(cats, tks) ==
    MapSeq(cats, LAMBDA category :
        LET categoryTasks == SelectSeq(tks, LAMBDA t : t.categoryId = category.id)
            completed == Len(SelectSeq(categoryTasks, LAMBDA t : t.isCompleted))
        IN  [id |-> category.id, title |-> category.title,
             total |-> Len(categoryTasks), completed |-> completed,
             percentage |-> percentage(completed, Len(categoryTasks))])

(* What the analytics screen derives from the store of one render.         *)
Analytics(cats, tks) ==
    [dailyStats |-> dailyStats(tks), categoryStats |-> categoryStats(cats, tks)]

(* ------------------------------ initial state -------------------------- *)
(* The Supabase-backed provider keeps nothing in AsyncStorage, and its     *)
(* screens are modelled apart from the useAuth hook.                       *)
NoStorage == [categories |-> {}, tasks |-> {}, lastResetDate |-> NoDate]
NoAuth == [user |-> NoUser, loading |-> TRUE, error |-> FALSE, session |-> NoUser]

Init ==
    /\ now = 0
    /\ tz \in TzOffsets
    /\ userId = NoUser
    /\ categories = << >>
    /\ tasks = << >>
    /\ dbCategories = << >>
    /\ dbTasks = << >>
    /\ history = << >>
    /\ nextCategoryId = 1
    /\ nextTaskId = 1
    /\ calls = 0
    /\ rendered = Analytics(<< >>, << >>)
    /\ last = Settled("mount", "resolved", FALSE, FALSE, FALSE)
    /\ inflight = {}
    /\ storage = NoStorage
    /\ auth = NoAuth

(* ------------------------------ operations ---------------------------- *)
LocalUnchanged == UNCHANGED <<categories, tasks>>
RemoteUnchanged == UNCHANGED <<dbCategories, dbTasks, history, nextCategoryId, nextTaskId>>
(* One more operation is issued, within the bound on their number, and it   *)
(* is awaited before the next one is issued.                                *)
Called == calls < MaxCalls /\ calls' = calls + 1 /\ UNCHANGED <<inflight, storage, auth>>
Fixed == Called /\ UNCHANGED <<tz, userId, rendered>>

(* The auth listener's callback for a signed-in session (and the same      *)
(* steps of initializeAuth): setUserId, then loadData(user.id).  When the  *)
(* user id changes, the effect on [userId] runs checkAndResetDailyTasks    *)
(* with the tasks of that render, before or after the load's selects.      *)
onSignedIn(user) ==
    \E t \in now..MaxTime, checkFirst \in BOOLEAN :
    /\ userId \in {NoUser, user}
    /\ now' = t
    /\ userId' = user
    /\ IF userId = user
       THEN \E l \in loadData(user, categories, tasks, dbCategories, dbTasks) :
            /\ categories' = l.categories
            /\ tasks' = l.tasks
            /\ dbTasks' = dbTasks
            /\ last' = Settled("onAuthStateChange", "resolved", l.err, FALSE, FALSE)
       ELSE IF checkFirst
       THEN \E c \in checkOutcomes(user, categories, tasks, dbCategories, dbTasks, t) :
            \E l \in loadData(user, c.categories, c.tasks, dbCategories, c.dbTasks) :
            /\ categories' = l.categories
            /\ tasks' = l.tasks
            /\ dbTasks' = c.dbTasks
            /\ last' = Settled("onAuthStateChange", "resolved", l.err \/ c.err, FALSE, c.reset)
       ELSE \E l \in loadData(user, categories, tasks, dbCategories, dbTasks) :
            \E c \in checkOutcomes(user, categories, tasks, dbCategories, dbTasks, t) :
            /\ categories' = IF c.reset THEN c.categories ELSE l.categories
            /\ tasks' = IF c.reset THEN c.tasks ELSE l.tasks
            /\ dbTasks' = c.dbTasks
            /\ last' = Settled("onAuthStateChange", "resolved", l.err \/ c.err, FALSE, c.reset)
    /\ Called
    /\ UNCHANGED <<tz, rendered, dbCategories, history, nextCategoryId, nextTaskId>>

(* A sign-out callback that only forgets the user.                         *)
onSignedOutKeepingStore ==
    /\ userId # NoUser
    /\ UNCHANGED now
    /\ userId' = NoUser
    /\ last' = Settled("onAuthStateChange", "resolved", FALSE, FALSE, FALSE)
    /\ LocalUnchanged
    /\ RemoteUnchanged
    /\ Called
    /\ UNCHANGED <<tz, rendered>>

(* The auth listener's callback without a session: the store is cleared.   *)
onSignedOut ==
    /\ userId # NoUser
    /\ UNCHANGED now
    /\ userId' = NoUser
    /\ categories' = << >>
    /\ tasks' = << >>
    /\ last' = Settled("onAuthStateChange", "resolved", FALSE, FALSE, FALSE)
    /\ RemoteUnchanged
    /\ Called
    /\ UNCHANGED <<tz, rendered>>

(* syncData: loadData() for the user of the current render.                *)
syncData ==
    \E l \in loadData(userId, categories, tasks, dbCategories, dbTasks) :
    /\ UNCHANGED now
    /\ categories' = l.categories
    /\ tasks' = l.tasks
    /\ last' = Settled("syncData", "resolved", l.err, FALSE, FALSE)
    /\ RemoteUnchanged
    /\ Fixed

checkAndResetDailyTasks ==
    \E t \in now..MaxTime :
    \E c \in checkOutcomes(userId, categories, tasks, dbCategories, dbTasks, t) :
    /\ now' = t
    /\ categories' = c.categories
    /\ tasks' = c.tasks
    /\ dbTasks' = c.dbTasks
    /\ last' = Settled("checkAndResetDailyTasks", "resolved", c.err, FALSE, c.reset)
    /\ UNCHANGED <<dbCategories, history, nextCategoryId, nextTaskId>>
    /\ Fixed

saveDailyAnalytics ==
    \E t \in now..MaxTime, aok \in BOOLEAN :
    /\ now' = t
    /\ history' = IF userId # NoUser /\ aok
                  THEN save_daily_analytics(history, dbTasks, userId, t)
                  ELSE history
    /\ last' = LET l == Settled("saveDailyAnalytics", "resolved", FALSE,
                                userId # NoUser /\ ~aok, FALSE)
               IN  IF userId # NoUser /\ aok THEN Saved(l, history, history') ELSE l
    /\ UNCHANGED <<dbCategories, dbTasks, nextCategoryId, nextTaskId>>
    /\ LocalUnchanged
    /\ Fixed

(* A catch block that logs the error and does not rethrow it.              *)
Swallowed(op, outcome, err) ==
    /\ last' = Settled(op, "resolved", err, FALSE, FALSE)
    /\ LocalUnchanged
    /\ RemoteUnchanged

(* saveDailyAnalytics rethrowing the rpc's error to its caller.            *)
afterAnalyticsRethrown(op, aok) ==
    Settled(op, IF aok THEN "resolved" ELSE "rejected", FALSE, ~aok, FALSE)

(* How an operation ends that awaited saveDailyAnalytics() after its       *)
(* write: the rpc's error is logged inside saveDailyAnalytics and never    *)
(* reaches the operation.                                                  *)
afterAnalytics(op, aok) == Settled(op, "resolved", FALSE, ~aok, FALSE)

(* An operation that returned at its guard, or whose remote call failed:   *)
(* nothing is written.                                                     *)
Untouched(op, outcome, err) ==
    /\ last' = Settled(op, outcome, err, FALSE, FALSE)
    /\ LocalUnchanged
    /\ RemoteUnchanged

(* The row insert(...).select().single() returns for a new category.       *)
insertedCategory(uid, title, orderIndex) ==
    [id |-> nextCategoryId, user_id |-> uid, title |-> title, order_index |-> orderIndex]

addCategory(title) ==
    \E ok \in BOOLEAN :
    /\ UNCHANGED now
    /\ Fixed
    /\ IF userId = NoUser THEN Untouched("addCategory", "resolved", FALSE)
       ELSE IF ~ok THEN Untouched("addCategory", "rejected", TRUE)
       ELSE LET data == insertedCategory(userId, title, Len(categories))
            IN  /\ nextCategoryId <= MaxCategories
                /\ dbCategories' = Append(dbCategories, data)
                /\ nextCategoryId' = nextCategoryId + 1
                /\ categories' = Append(categories, mappedCategory(data))
                /\ last' = Settled("addCategory", "resolved", FALSE, FALSE, FALSE)
                /\ UNCHANGED <<tasks, dbTasks, history, nextTaskId>>

(* The row insert(...).select().single() returns for a new task.           *)
insertedTask(uid, categoryId, title, isDaily) ==
    [id |-> nextTaskId, user_id |-> uid, category_id |-> categoryId, title |-> title,
     is_completed |-> FALSE, is_daily |-> isDaily, last_completed_date |-> NoDate]

addTask(categoryId, title, isDaily) ==
    \E ok \in BOOLEAN :
    /\ UNCHANGED now
    /\ Fixed
    /\ IF userId = NoUser THEN Untouched("addTask", "resolved", FALSE)
       ELSE IF ~ok THEN Untouched("addTask", "rejected", TRUE)
       ELSE LET data == insertedTask(userId, categoryId, title, isDaily)
            IN  /\ nextTaskId <= MaxTasks
                /\ \E i \in 1..Len(dbCategories) : dbCategories[i].id = categoryId
                /\ dbTasks' = Append(dbTasks, data)
                /\ nextTaskId' = nextTaskId + 1
                /\ tasks' = Append(tasks, mappedTask(data))
                /\ last' = Settled("addTask", "resolved", FALSE, FALSE, FALSE)
                /\ UNCHANGED <<categories, dbCategories, history, nextCategoryId>>

updateTask(taskId, title) ==
    \E ok \in BOOLEAN :
    /\ UNCHANGED now
    /\ Fixed
    /\ IF userId = NoUser THEN Untouched("updateTask", "resolved", FALSE)
       ELSE IF ~ok THEN Untouched("updateTask", "rejected", TRUE)
       ELSE /\ dbTasks' = MapSeq(dbTasks, LAMBDA r :
                    IF r.id = taskId THEN [r EXCEPT !.title = title] ELSE r)
            /\ tasks' = MapSeq(tasks, LAMBDA x :
                    IF x.id = taskId THEN [x EXCEPT !.title = title] ELSE x)
            /\ last' = Settled("updateTask", "resolved", FALSE, FALSE, FALSE)
            /\ UNCHANGED <<categories, dbCategories, history, nextCategoryId, nextTaskId>>

(* tasks.find((t) => t.id === taskId): the first task of that id.          *)
find(tks, taskId) ==
    tks[CHOOSE i \in 1..Len(tks) :
            tks[i].id = taskId /\ \A j \in 1..(i - 1) : tks[j].id # taskId]

(* The update toggleTask sends: a key whose value is undefined is left     *)
(* out of the request, so that column keeps its value.                     *)
toggledRow(r, task, t) ==
    [r EXCEPT !.is_completed = ~task.isCompleted,
              !.last_completed_date =
                  IF ~task.isCompleted THEN DateAt(t)
                  ELSE IF task.lastCompletedDate = NoDate THEN @
                  ELSE task.lastCompletedDate]

(* A toggle that sets isCompleted in the store and leaves the date alone.  *)
toggledTaskWithoutDate(x, t) ==
    [x EXCEPT !.isCompleted = ~x.isCompleted]

toggledTask(x, t) ==
    [x EXCEPT !.isCompleted = ~x.isCompleted,
              !.lastCompletedDate = IF ~x.isCompleted THEN DateAt(t) ELSE @]

toggleTask(taskId) ==
    \E t \in now..MaxTime, ok \in BOOLEAN, aok \in BOOLEAN :
    /\ now' = t
    /\ Fixed
    /\ IF userId = NoUser \/ ~\E i \in 1..Len(tasks) : tasks[i].id = taskId
       THEN Untouched("toggleTask", "resolved", FALSE)
       ELSE IF ~ok THEN Untouched("toggleTask", "rejected", TRUE)
       ELSE LET task == find(tasks, taskId)
                db1 == MapSeq(dbTasks, LAMBDA r :
                           IF r.id = taskId THEN toggledRow(r, task, t) ELSE r)
            IN  /\ dbTasks' = db1
                /\ tasks' = MapSeq(tasks, LAMBDA x :
                        IF x.id = taskId THEN toggledTask(x, t) ELSE x)
                /\ history' = IF aok THEN save_daily_analytics(history, db1, userId, t)
                              ELSE history
                /\ last' = LET l == afterAnalytics("toggleTask", aok)
                           IN  IF aok THEN Saved(l, history, history') ELSE l
                /\ UNCHANGED <<categories, dbCategories, nextCategoryId, nextTaskId>>

deleteTask(taskId) ==
    \E t \in now..MaxTime, ok \in BOOLEAN, aok \in BOOLEAN :
    /\ now' = t
    /\ Fixed
    /\ IF userId = NoUser THEN Untouched("deleteTask", "resolved", FALSE)
       ELSE IF ~ok THEN Untouched("deleteTask", "rejected", TRUE)
       ELSE LET db1 == SelectSeq(dbTasks, LAMBDA r : r.id # taskId)
            IN  /\ dbTasks' = db1
                /\ tasks' = SelectSeq(tasks, LAMBDA x : x.id # taskId)
                /\ history' = IF aok THEN save_daily_analytics(history, db1, userId, t)
                              ELSE history
                /\ last' = LET l == afterAnalytics("deleteTask", aok)
                           IN  IF aok THEN Saved(l, history, history') ELSE l
                /\ UNCHANGED <<categories, dbCategories, nextCategoryId, nextTaskId>>

(* delete from categories where id = categoryId; the tasks of the          *)
(* category go with it (ON DELETE CASCADE).                                *)
deleteCategory(categoryId) ==
    \E t \in now..MaxTime, ok \in BOOLEAN, aok \in BOOLEAN :
    /\ now' = t
    /\ Fixed
    /\ IF userId = NoUser THEN Untouched("deleteCategory", "resolved", FALSE)
       ELSE IF ~ok THEN Untouched("deleteCategory", "rejected", TRUE)
       ELSE LET db1 == SelectSeq(dbTasks, LAMBDA r : r.category_id # categoryId)
            IN  /\ dbCategories' = SelectSeq(dbCategories, LAMBDA r : r.id # categoryId)
                /\ dbTasks' = db1
                /\ categories' = SelectSeq(categories, LAMBDA c : c.id # categoryId)
                /\ tasks' = SelectSeq(tasks, LAMBDA x : x.categoryId # categoryId)
                /\ history' = IF aok THEN save_daily_analytics(history, db1, userId, t)
                              ELSE history
                /\ last' = LET l == afterAnalytics("deleteCategory", aok)
                           IN  IF aok THEN Saved(l, history, history') ELSE l
                /\ UNCHANGED <<nextCategoryId, nextTaskId>>

(* The rows after the order_index updates of the positions in acked have   *)
(* been applied; the results of the others carried an error.               *)
reorderedRows(db, reorderedCategories, acked) ==
    MapSeq(db, LAMBDA r :
        IF \E i \in acked : reorderedCategories[i].id = r.id
        THEN [r EXCEPT !.order_index =
                 (CHOOSE i \in acked : reorderedCategories[i].id = r.id) - 1]
        ELSE r)

reorderCategories(reorderedCategories) ==
    \E acked \in SUBSET (1..Len(reorderedCategories)) :
    /\ UNCHANGED now
    /\ Fixed
    /\ IF userId = NoUser THEN Untouched("reorderCategories", "resolved", FALSE)
       ELSE /\ dbCategories' = reorderedRows(dbCategories, reorderedCategories, acked)
            /\ categories' = reorderedCategories
            /\ last' = Settled("reorderCategories", "resolved",
                               acked # 1..Len(reorderedCategories), FALSE, FALSE)
            /\ UNCHANGED <<tasks, dbTasks, history, nextCategoryId, nextTaskId>>

CategoryIds == 1..MaxCategories
TaskIds == 1..MaxTasks

Next ==
    \/ \E title \in CategoryTitles : addCategory(title)
    \/ \E c \in CategoryIds, title \in NewTitles, isDaily \in BOOLEAN : addTask(c, title, isDaily)
    \/ \E id \in TaskIds, title \in Titles : updateTask(id, title)
    \/ \E id \in TaskIds : toggleTask(id)
    \/ \E id \in TaskIds : deleteTask(id)
    \/ \E c \in CategoryIds : deleteCategory(c)
    \/ \E p \in Permutations_(categories) : reorderCategories(p)
    \/ saveDailyAnalytics
    \/ \E user \in Users : onSignedIn(user)
    \/ onSignedOut
    \/ syncData
    \/ checkAndResetDailyTasks

Spec == Init /\ [][Next]_vars

(* --------------------------- analytics screen -------------------------- *)
(* The stores the analytics screen is rendered from: the user's categories *)
(* in some order, n1 tasks of category 1 that are not daily, of which c1   *)
(* are completed, then n2 daily tasks of category 2, of which c2 are       *)
(* completed.                                                              *)
StatCategoryOrders == {<< >>, <<1>>, <<1, 2>>, <<2, 1>>}

StatCategoryRows(order) ==
    [i \in 1..Len(order) |->
        [id |-> order[i], user_id |-> "u1", title |-> "c", order_index |-> i - 1]]

StatTaskRows(n1, c1, n2, c2) ==
    [i \in 1..(n1 + n2) |->
        LET first == i <= n1
            done == IF first THEN i <= c1 ELSE i - n1 <= c2
        IN  [id |-> i, user_id |-> "u1", category_id |-> IF first THEN 1 ELSE 2,
             title |-> "a", is_completed |-> done, is_daily |-> ~first,
             last_completed_date |-> IF done THEN DateAt(0) ELSE NoDate]]

InitStats ==
    \E order \in StatCategoryOrders :
    \E n1 \in 0..MaxStatTasks, n2 \in 0..MaxStatDaily :
    \E c1 \in 0..n1, c2 \in 0..n2 :
    /\ now = 0
    /\ tz = 0
    /\ userId = "u1"
    /\ dbCategories = StatCategoryRows(order)
    /\ dbTasks = StatTaskRows(n1, c1, n2, c2)
    /\ categories = MapSeq(dbCategories, mappedCategory)
    /\ tasks = MapSeq(dbTasks, mappedTask)
    /\ history = << >>
    /\ nextCategoryId = MaxCategories + 1
    /\ nextTaskId = n1 + n2 + 1
    /\ calls = 0
    /\ rendered = Analytics(<< >>, << >>)
    /\ last = Settled("mount", "resolved", FALSE, FALSE, FALSE)
    /\ inflight = {}
    /\ storage = NoStorage
    /\ auth = NoAuth

(* The analytics screen renders: its useMemo values are derived from the   *)
(* store.                                                                  *)
RenderAnalytics ==
    /\ last.op # "analytics"
    /\ rendered' = Analytics(categories, tasks)
    /\ last' = Settled("analytics", "resolved", FALSE, FALSE, FALSE)
    /\ UNCHANGED <<now, tz, userId, categories, tasks, dbCategories, dbTasks,
                   history, nextCategoryId, nextTaskId, calls, inflight,
                   storage, auth>>

NextStats == RenderAnalytics

SpecStats == InitStats /\ [][NextStats]_vars

(* ------------------------- operations in flight ------------------------ *)
(* The same provider when an operation is issued while others still await  *)
(* their answers.  An operation works on the state of the render that      *)
(* created it: the user id and the task list it closed over.               *)
AsyncUsers == {"u1", "u2"}

Pending(op, uid, taskId, tks, t, pc) ==
    [op |-> op, uid |-> uid, taskId |-> taskId, tasks |-> tks, t |-> t, pc |-> pc,
     err |-> FALSE, reset |-> FALSE]

(* The remote rows a session starts from: a category of each user and two  *)
(* tasks of u1, each completed at instant 0, never completed, or, as the   *)
(* row type allows, completed with last_completed_date null.               *)
AsyncTaskStates ==
    {[is_completed |-> FALSE, last_completed_date |-> NoDate],
     [is_completed |-> TRUE, last_completed_date |-> DateAt(0)],
     [is_completed |-> TRUE, last_completed_date |-> NoDate]}

AsyncTaskRow(id, isDaily, st) ==
    [id |-> id, user_id |-> "u1", category_id |-> 1, title |-> "a",
     is_completed |-> st.is_completed, is_daily |-> isDaily,
     last_completed_date |-> st.last_completed_date]

InitAsync ==
    \E d1 \in BOOLEAN, s1 \in AsyncTaskStates, s2 \in AsyncTaskStates :
    /\ now = 0
    /\ tz \in TzOffsets
    /\ userId = NoUser
    /\ categories = << >>
    /\ tasks = << >>
    /\ dbCategories = <<[id |-> 1, user_id |-> "u1", title |-> "c", order_index |-> 0],
                        [id |-> 2, user_id |-> "u2", title |-> "c", order_index |-> 0]>>
    /\ dbTasks = <<AsyncTaskRow(1, d1, s1), AsyncTaskRow(2, TRUE, s2)>>
    /\ history = << >>
    /\ nextCategoryId = MaxCategories + 1
    /\ nextTaskId = MaxTasks + 1
    /\ calls = 0
    /\ rendered = Analytics(<< >>, << >>)
    /\ last = Settled("mount", "resolved", FALSE, FALSE, FALSE)
    /\ inflight = {}
    /\ storage = NoStorage
    /\ auth = NoAuth

(* One more operation is issued while at most MaxInFlight are awaited.     *)
Issued(p) ==
    /\ calls < MaxAsyncCalls
    /\ calls' = calls + 1
    /\ inflight' = inflight \cup p
    /\ Cardinality(inflight') <= MaxInFlight

AsyncFixed ==
    UNCHANGED <<tz, rendered, nextCategoryId, nextTaskId, dbCategories, storage, auth>>

(* checkAndResetDailyTasks up to its first await: today and tasksToReset   *)
(* are computed from the closure, and the update is sent when tasks are    *)
(* stale.                                                                  *)
startedCheck(uid, tks, t) ==
    Pending("checkAndResetDailyTasks", uid, 0, tks, t,
            IF Len(tasksToReset(tks, t)) > 0 THEN "update" ELSE "rpc")

(* The auth callback for a session: setUserId and the start of             *)
(* loadData(user.id); the effect on [userId] starts a check in the render  *)
(* that follows, whose tasks are those of the store at that moment.        *)
signedIn(user) ==
    \E t \in now..MaxTime :
    /\ userId \in {NoUser, user}
    /\ now' = t
    /\ userId' = user
    /\ Issued({Pending("loadData", user, 0, << >>, 0, "select")}
              \cup (IF userId # user THEN {startedCheck(user, tasks, t)} ELSE {}))
    /\ last' = Settled("onAuthStateChange", "pending", FALSE, FALSE, FALSE)
    /\ UNCHANGED <<categories, tasks, dbTasks, history>>
    /\ AsyncFixed

(* The auth callback without a session.                                    *)
signedOut ==
    /\ userId # NoUser
    /\ userId' = NoUser
    /\ categories' = << >>
    /\ tasks' = << >>
    /\ Issued({})
    /\ last' = Settled("onAuthStateChange", "resolved", FALSE, FALSE, FALSE)
    /\ UNCHANGED <<now, dbTasks, history>>
    /\ AsyncFixed

(* The selects of a loadData(uid) in flight are answered: the rows of uid  *)
(* are set, whoever is signed in by now.                                   *)
loadSettles(p) ==
    /\ p.op = "loadData"
    /\ \E l \in loadData(p.uid, categories, tasks, dbCategories, dbTasks) :
        /\ categories' = l.categories
        /\ tasks' = l.tasks
        /\ last' = Settled("loadData", "resolved", l.err, FALSE, FALSE)
    /\ inflight' = inflight \ {p}
    /\ UNCHANGED <<now, userId, dbTasks, history, calls>>
    /\ AsyncFixed

(* A screen calls checkAndResetDailyTasks of the current render.           *)
checkStarts ==
    \E t \in now..MaxTime :
    /\ userId # NoUser
    /\ now' = t
    /\ Issued({startedCheck(userId, tasks, t)})
    /\ last' = Settled("checkAndResetDailyTasks", "pending", FALSE, FALSE, FALSE)
    /\ UNCHANGED <<userId, categories, tasks, dbTasks, history>>
    /\ AsyncFixed

(* The reset update of a check is answered.                                *)
checkUpdates(p) ==
    \E ok \in BOOLEAN :
    /\ p.op = "checkAndResetDailyTasks"
    /\ p.pc = "update"
    /\ IF ok
       THEN /\ dbTasks' = resetUpdate(dbTasks, p.uid, p.t)
            /\ inflight' = (inflight \ {p}) \cup {[p EXCEPT !.pc = "load", !.reset = TRUE]}
            /\ last' = Settled("checkAndResetDailyTasks", "pending", FALSE, FALSE, TRUE)
       ELSE /\ dbTasks' = dbTasks
            /\ inflight' = inflight \ {p}
            /\ last' = Settled("checkAndResetDailyTasks", "resolved", TRUE, FALSE, FALSE)
    /\ UNCHANGED <<now, userId, categories, tasks, history, calls>>
    /\ AsyncFixed

(* The check's loadData() is answered: the rows of the check's user.       *)
checkLoads(p) ==
    /\ p.op = "checkAndResetDailyTasks"
    /\ p.pc = "load"
    /\ \E l \in loadData(p.uid, categories, tasks, dbCategories, dbTasks) :
        /\ categories' = l.categories
        /\ tasks' = l.tasks
        /\ inflight' = (inflight \ {p}) \cup {[p EXCEPT !.pc = "rpc", !.err = l.err]}
    /\ last' = Settled("checkAndResetDailyTasks", "pending", FALSE, FALSE, TRUE)
    /\ UNCHANGED <<now, userId, dbTasks, history, calls>>
    /\ AsyncFixed

(* The reset_daily_tasks rpc of a check is answered, and the check ends.   *)
checkCallsRpc(p) ==
    \E rpcOk \in BOOLEAN :
    /\ p.op = "checkAndResetDailyTasks"
    /\ p.pc = "rpc"
    /\ dbTasks' = IF rpcOk THEN reset_daily_tasks(dbTasks, now) ELSE dbTasks
    /\ inflight' = inflight \ {p}
    /\ last' = Settled("checkAndResetDailyTasks", "resolved", p.err \/ ~rpcOk, FALSE, p.reset)
    /\ UNCHANGED <<now, userId, categories, tasks, history, calls>>
    /\ AsyncFixed

(* toggleTask up to its await: the task is looked up in the closure's      *)
(* tasks and the update is sent.                                           *)
toggleStarts(taskId) ==
    \E t \in now..MaxTime :
    /\ userId # NoUser
    /\ \E i \in 1..Len(tasks) : tasks[i].id = taskId
    /\ now' = t
    /\ Issued({Pending("toggleTask", userId, taskId, tasks, t, "update")})
    /\ last' = Settled("toggleTask", "pending", FALSE, FALSE, FALSE)
    /\ UNCHANGED <<userId, categories, tasks, dbTasks, history>>
    /\ AsyncFixed

(* The update of a toggle is answered: setTasks maps the closure's tasks,  *)
(* then saveDailyAnalytics runs for the closure's user.                    *)
toggleSettles(p) ==
    \E ok \in BOOLEAN, aok \in BOOLEAN :
    /\ p.op = "toggleTask"
    /\ inflight' = inflight \ {p}
    /\ IF ~ok
       THEN /\ last' = Settled("toggleTask", "rejected", TRUE, FALSE, FALSE)
            /\ UNCHANGED <<tasks, dbTasks, history>>
       ELSE LET task == find(p.tasks, p.taskId)
                db1 == MapSeq(dbTasks, LAMBDA r :
                           IF r.id = p.taskId THEN toggledRow(r, task, p.t) ELSE r)
            IN  /\ dbTasks' = db1
                /\ tasks' = MapSeq(p.tasks, LAMBDA x :
                        IF x.id = p.taskId THEN toggledTask(x, p.t) ELSE x)
                /\ history' = IF aok THEN save_daily_analytics(history, db1, p.uid, now)
                              ELSE history
                /\ last' = LET l == afterAnalytics("toggleTask", aok)
                           IN  IF aok THEN Saved(l, history, history') ELSE l
    /\ UNCHANGED <<now, userId, categories, calls>>
    /\ AsyncFixed

(* deleteTask up to its await.                                             *)
deleteStarts(taskId) ==
    /\ userId # NoUser
    /\ \E i \in 1..Len(tasks) : tasks[i].id = taskId
    /\ Issued({Pending("deleteTask", userId, taskId, tasks, now, "delete")})
    /\ last' = Settled("deleteTask", "pending", FALSE, FALSE, FALSE)
    /\ UNCHANGED <<now, userId, categories, tasks, dbTasks, history>>
    /\ AsyncFixed

(* The delete is answered: setTasks filters the closure's tasks.           *)
deleteSettles(p) ==
    \E ok \in BOOLEAN, aok \in BOOLEAN :
    /\ p.op = "deleteTask"
    /\ inflight' = inflight \ {p}
    /\ IF ~ok
       THEN /\ last' = Settled("deleteTask", "rejected", TRUE, FALSE, FALSE)
            /\ UNCHANGED <<tasks, dbTasks, history>>
       ELSE LET db1 == SelectSeq(dbTasks, LAMBDA r : r.id # p.taskId)
            IN  /\ dbTasks' = db1
                /\ tasks' = SelectSeq(p.tasks, LAMBDA x : x.id # p.taskId)
                /\ history' = IF aok THEN save_daily_analytics(history, db1, p.uid, now)
                              ELSE history
                /\ last' = LET l == afterAnalytics("deleteTask", aok)
                           IN  IF aok THEN Saved(l, history, history') ELSE l
    /\ UNCHANGED <<now, userId, categories, calls>>
    /\ AsyncFixed

NextAsync ==
    \/ \E user \in AsyncUsers : signedIn(user)
    \/ signedOut
    \/ \E p \in inflight : loadSettles(p)
    \/ checkStarts
    \/ \E p \in inflight : checkUpdates(p)
    \/ \E p \in inflight : checkLoads(p)
    \/ \E p \in inflight : checkCallsRpc(p)
    \/ \E id \in TaskIds : toggleStarts(id)
    \/ \E p \in inflight : toggleSettles(p)
    \/ \E id \in TaskIds : deleteStarts(id)
    \/ \E p \in inflight : deleteSettles(p)

SpecAsync == InitAsync /\ [][NextAsync]_vars

(* --------------------- two devices, one account ------------------------ *)
(* The remote rows of u1 as two device sessions of u1 act on them. A       *)
(* device's operation starts from a store that holds the rows as they are  *)
(* at that moment; inflight holds each device's check that is awaiting a   *)
(* remote answer.                                                          *)
Devices == {"d1", "d2"}

OnDevice(d, p) == [device |-> d, call |-> p]

DeviceStore == MapSeq(SelectTasks(dbTasks, "u1"), mappedTask)

RemoteFixed ==
    UNCHANGED <<tz, userId, categories, tasks, dbCategories, rendered,
                nextCategoryId, nextTaskId, storage, auth>>

(* A device starts checkAndResetDailyTasks; a device runs one at a time.   *)
deviceChecks(d) ==
    \E t \in now..MaxTime :
    /\ \A c \in inflight : c.device # d
    /\ calls < MaxRemoteCalls
    /\ calls' = calls + 1
    /\ now' = t
    /\ inflight' = inflight \cup {OnDevice(d, startedCheck("u1", DeviceStore, t))}
    /\ last' = Settled("checkAndResetDailyTasks", "pending", FALSE, FALSE, FALSE)
    /\ UNCHANGED <<dbTasks, history>>
    /\ RemoteFixed

(* The reset update of a device's check is answered; the reload that       *)
(* follows sets the device's store only.                                   *)
deviceUpdates(c) ==
    \E ok \in BOOLEAN :
    /\ c.call.pc = "update"
    /\ IF ok
       THEN /\ dbTasks' = resetUpdate(dbTasks, c.call.uid, c.call.t)
            /\ inflight' = (inflight \ {c})
                  \cup {OnDevice(c.device, [c.call EXCEPT !.pc = "rpc", !.reset = TRUE])}
            /\ last' = Settled("checkAndResetDailyTasks", "pending", FALSE, FALSE, TRUE)
       ELSE /\ dbTasks' = dbTasks
            /\ inflight' = inflight \ {c}
            /\ last' = Settled("checkAndResetDailyTasks", "resolved", TRUE, FALSE, FALSE)
    /\ UNCHANGED <<now, history, calls>>
    /\ RemoteFixed

(* The reset_daily_tasks rpc of a device's check is answered.              *)
deviceCallsRpc(c) ==
    \E rpcOk \in BOOLEAN :
    /\ c.call.pc = "rpc"
    /\ dbTasks' = IF rpcOk THEN reset_daily_tasks(dbTasks, now) ELSE dbTasks
    /\ inflight' = inflight \ {c}
    /\ last' = Settled("checkAndResetDailyTasks", "resolved", ~rpcOk, FALSE, c.call.reset)
    /\ UNCHANGED <<now, history, calls>>
    /\ RemoteFixed

(* A device toggles a task of its store, and the update succeeds.          *)
deviceToggles(taskId) ==
    \E t \in now..MaxTime, aok \in BOOLEAN :
    /\ \E i \in 1..Len(DeviceStore) : DeviceStore[i].id = taskId
    /\ calls < MaxRemoteCalls
    /\ calls' = calls + 1
    /\ now' = t
    /\ LET task == find(DeviceStore, taskId)
           db1 == MapSeq(dbTasks, LAMBDA r :
                      IF r.id = taskId THEN toggledRow(r, task, t) ELSE r)
       IN  /\ dbTasks' = db1
           /\ history' = IF aok THEN save_daily_analytics(history, db1, "u1", t)
                         ELSE history
           /\ last' = LET l == afterAnalytics("toggleTask", aok)
                      IN  IF aok THEN Saved(l, history, history') ELSE l
    /\ UNCHANGED inflight
    /\ RemoteFixed

NextRemote ==
    \/ \E d \in Devices : deviceChecks(d)
    \/ \E c \in inflight : deviceUpdates(c)
    \/ \E c \in inflight : deviceCallsRpc(c)
    \/ \E id \in TaskIds : deviceToggles(id)

SpecRemote == InitAsync /\ [][NextRemote]_vars

(* --------------------- the device-storage provider --------------------- *)
(* The TaskProvider that keeps its lists in AsyncStorage, from its mount:  *)
(* the effect on [] starts loadData and the effect on [tasks] starts       *)
(* checkDailyReset, then and after every setTasks.  An item of the storage *)
(* is {} when absent and {v} when it holds v; JSON.stringify and           *)
(* JSON.parse keep a Date's instant, as a string.  AsyncStorage answers    *)
(* every call, in an order of its own.                                     *)
LastStart == 0 - 2 * TicksPerDay

LocalCall(op, tks, pc, item, n) ==
    [op |-> op, tasks |-> tks, pc |-> pc, item |-> item, n |-> n]

(* What the previous session left of a task: never completed, completed,   *)
(* or completed and un-completed again.                                    *)
LocalTaskStates ==
    {[isCompleted |-> FALSE, lastCompletedDate |-> NoDate],
     [isCompleted |-> TRUE, lastCompletedDate |-> DateAt(LastStart)],
     [isCompleted |-> FALSE, lastCompletedDate |-> DateAt(LastStart)]}

LocalTask(id, isDaily, st) ==
    [id |-> id, userId |-> "local", categoryId |-> 1, title |-> "a",
     isCompleted |-> st.isCompleted, isDaily |-> isDaily,
     lastCompletedDate |-> st.lastCompletedDate]

InitLocal ==
    \E d1 \in BOOLEAN, s1 \in LocalTaskStates, s2 \in LocalTaskStates, everReset \in BOOLEAN :
    /\ now = 0
    /\ tz \in TzOffsets
    /\ userId = NoUser
    /\ categories = << >>
    /\ tasks = << >>
    /\ dbCategories = << >>
    /\ dbTasks = << >>
    /\ history = << >>
    /\ nextCategoryId = 1
    /\ nextTaskId = 1
    /\ calls = 0
    /\ rendered = Analytics(<< >>, << >>)
    /\ last = Settled("mount", "pending", FALSE, FALSE, FALSE)
    /\ inflight = {LocalCall("loadData", << >>, "getItem", NoStorage, 0),
                   LocalCall("checkDailyReset", << >>, "getItem", NoStorage, 0)}
    /\ storage =
         [categories |-> {<<[id |-> 1, userId |-> "local", title |-> "c", orderIndex |-> 0]>>},
          tasks |-> {<<LocalTask(1, d1, s1), LocalTask(2, TRUE, s2)>>},
          lastResetDate |-> IF everReset THEN DateAt(toDateString(LastStart)) ELSE NoDate]
    /\ auth = NoAuth

LocalFixed ==
    UNCHANGED <<tz, userId, dbCategories, dbTasks, history, nextCategoryId, nextTaskId,
                rendered, auth>>

(* setTasks was called: the render that follows runs the effect on         *)
(* [tasks], which calls checkDailyReset with the new list.                 *)
tasksEffect(tks) ==
    LocalCall("checkDailyReset", tks, "getItem", NoStorage, calls + 1)

(* AsyncStorage.getItem of a call is answered with the items as they are.  *)
localGetItems(p) ==
    /\ p.pc = "getItem"
    /\ inflight' = (inflight \ {p}) \cup {[p EXCEPT !.pc = "resume", !.item = storage]}
    /\ last' = Settled(p.op, "pending", FALSE, FALSE, FALSE)
    /\ UNCHANGED <<now, categories, tasks, storage, calls>>
    /\ LocalFixed

(* loadData after its await: each list that was stored is set.             *)
localLoadResumes(p) ==
    /\ p.op = "loadData"
    /\ p.pc = "resume"
    /\ categories' = IF p.item.categories = {} THEN categories
                     ELSE CHOOSE c \in p.item.categories : TRUE
    /\ IF p.item.tasks = {}
       THEN /\ tasks' = tasks
            /\ inflight' = inflight \ {p}
            /\ calls' = calls
       ELSE /\ calls < MaxLocalCalls
            /\ calls' = calls + 1
            /\ tasks' = CHOOSE tks \in p.item.tasks : TRUE
            /\ inflight' = (inflight \ {p}) \cup {tasksEffect(tasks')}
    /\ last' = Settled("loadData", "resolved", FALSE, FALSE, FALSE)
    /\ UNCHANGED <<now, storage>>
    /\ LocalFixed

(* checkDailyReset after its getItem: on another date than the stored one  *)
(* the closure's tasks are reset and set, and the writes are sent.         *)
localCheckResumes(p) ==
    \E t \in now..MaxTime :
    /\ p.op = "checkDailyReset"
    /\ p.pc = "resume"
    /\ now' = t
    /\ LET r == checkDailyReset(p.tasks, p.item.lastResetDate, t)
       IN  IF r.lastResetDate # p.item.lastResetDate
           THEN /\ calls < MaxLocalCalls
                /\ calls' = calls + 1
                /\ tasks' = r.tasks
                /\ inflight' = (inflight \ {p})
                      \cup {[p EXCEPT !.pc = "setItem",
                                      !.item = [categories |-> {}, tasks |-> {r.tasks},
                                                lastResetDate |-> r.lastResetDate]],
                            tasksEffect(r.tasks)}
                /\ last' = Settled("checkDailyReset", "pending", FALSE, FALSE, TRUE)
           ELSE /\ calls' = calls
                /\ tasks' = tasks
                /\ inflight' = inflight \ {p}
                /\ last' = Settled("checkDailyReset", "resolved", FALSE, FALSE, FALSE)
    /\ UNCHANGED <<categories, storage>>
    /\ LocalFixed

(* The setItem calls of a check are answered, and the check ends.          *)
localSetItems(p) ==
    /\ p.pc = "setItem"
    /\ storage' = [storage EXCEPT !.tasks = p.item.tasks,
                                  !.lastResetDate = p.item.lastResetDate]
    /\ inflight' = inflight \ {p}
    /\ last' = Settled("checkDailyReset", "resolved", FALSE, FALSE, TRUE)
    /\ UNCHANGED <<now, categories, tasks, calls>>
    /\ LocalFixed

NextLocal ==
    \/ \E p \in inflight : localGetItems(p)
    \/ \E p \in inflight : localLoadResumes(p)
    \/ \E p \in inflight : localCheckResumes(p)
    \/ \E p \in inflight : localSetItems(p)

SpecLocal == InitLocal /\ [][NextLocal]_vars

(* ---------------------- a load beside another session ------------------ *)
(* loadData of the signed-in user, select by select, while another session *)
(* of the same user adds and deletes rows.  The other session's store      *)
(* holds the rows as they are and its calls succeed.                       *)
LoadCall(uid, cats, pc) == [op |-> "loadData", uid |-> uid, categories |-> cats, pc |-> pc]

InitLoad ==
    /\ now = 0
    /\ tz = 0
    /\ userId = "u1"
    /\ categories = << >>
    /\ tasks = << >>
    /\ dbCategories = << >>
    /\ dbTasks = << >>
    /\ history = << >>
    /\ nextCategoryId = 1
    /\ nextTaskId = 1
    /\ calls = 0
    /\ rendered = Analytics(<< >>, << >>)
    /\ last = Settled("mount", "resolved", FALSE, FALSE, FALSE)
    /\ inflight = {}
    /\ storage = NoStorage
    /\ auth = NoAuth

LoadCalled == calls < MaxLoadCalls /\ calls' = calls + 1
LoadFixed == UNCHANGED <<now, tz, userId, history, rendered, storage, auth>>

(* syncData / loadData is called: the select on categories is sent.        *)
loadStarts ==
    /\ inflight = {}
    /\ LoadCalled
    /\ inflight' = {LoadCall(userId, << >>, "categories")}
    /\ last' = Settled("loadData", "pending", FALSE, FALSE, FALSE)
    /\ UNCHANGED <<categories, tasks, dbCategories, dbTasks, nextCategoryId, nextTaskId>>
    /\ LoadFixed

(* The select on categories is answered; on an error the load ends.        *)
loadSelectsCategories(p) ==
    \E ok \in BOOLEAN :
    /\ p.pc = "categories"
    /\ IF ok
       THEN \E rows \in SelectCategories(dbCategories, p.uid) :
            /\ inflight' = {[p EXCEPT !.pc = "tasks", !.categories = rows]}
            /\ last' = Settled("loadData", "pending", FALSE, FALSE, FALSE)
       ELSE /\ inflight' = {}
            /\ last' = Settled("loadData", "resolved", TRUE, FALSE, FALSE)
    /\ UNCHANGED <<categories, tasks, dbCategories, dbTasks, nextCategoryId, nextTaskId, calls>>
    /\ LoadFixed

(* The select on tasks is answered: both lists are mapped and set.         *)
loadSelectsTasks(p) ==
    \E ok \in BOOLEAN :
    /\ p.pc = "tasks"
    /\ inflight' = {}
    /\ IF ok
       THEN /\ categories' = MapSeq(p.categories, mappedCategory)
            /\ tasks' = MapSeq(SelectTasks(dbTasks, p.uid), mappedTask)
            /\ last' = Settled("loadData", "resolved", FALSE, FALSE, FALSE)
       ELSE /\ UNCHANGED <<categories, tasks>>
            /\ last' = Settled("loadData", "resolved", TRUE, FALSE, FALSE)
    /\ UNCHANGED <<dbCategories, dbTasks, nextCategoryId, nextTaskId, calls>>
    /\ LoadFixed

(* The rows of the user's categories, as the other session's store has     *)
(* them.                                                                   *)
OtherCategories == SelectSeq(dbCategories, LAMBDA r : r.user_id = userId)

(* The other session's addCategory: the insert.                            *)
otherAddsCategory(title) ==
    /\ LoadCalled
    /\ nextCategoryId <= MaxCategories
    /\ dbCategories' = Append(dbCategories,
                              insertedCategory(userId, title, Len(OtherCategories)))
    /\ nextCategoryId' = nextCategoryId + 1
    /\ last' = Settled("addCategory", "resolved", FALSE, FALSE, FALSE)
    /\ UNCHANGED <<categories, tasks, dbTasks, nextTaskId, inflight>>
    /\ LoadFixed

(* The other session's addTask: the insert into one of its categories.     *)
otherAddsTask(categoryId, title, isDaily) ==
    /\ LoadCalled
    /\ nextTaskId <= MaxTasks
    /\ \E i \in 1..Len(OtherCategories) : OtherCategories[i].id = categoryId
    /\ dbTasks' = Append(dbTasks, insertedTask(userId, categoryId, title, isDaily))
    /\ nextTaskId' = nextTaskId + 1
    /\ last' = Settled("addTask", "resolved", FALSE, FALSE, FALSE)
    /\ UNCHANGED <<categories, tasks, dbCategories, nextCategoryId, inflight>>
    /\ LoadFixed

(* The other session's deleteCategory: the delete, with its cascade.       *)
otherDeletesCategory(categoryId) ==
    /\ LoadCalled
    /\ \E i \in 1..Len(OtherCategories) : OtherCategories[i].id = categoryId
    /\ dbCategories' = SelectSeq(dbCategories, LAMBDA r : r.id # categoryId)
    /\ dbTasks' = SelectSeq(dbTasks, LAMBDA r : r.category_id # categoryId)
    /\ last' = Settled("deleteCategory", "resolved", FALSE, FALSE, FALSE)
    /\ UNCHANGED <<categories, tasks, nextCategoryId, nextTaskId, inflight>>
    /\ LoadFixed

NextLoad ==
    \/ loadStarts
    \/ \E p \in inflight : loadSelectsCategories(p)
    \/ \E p \in inflight : loadSelectsTasks(p)
    \/ \E title \in CategoryTitles : otherAddsCategory(title)
    \/ \E c \in CategoryIds, title \in NewTitles, isDaily \in BOOLEAN :
          otherAddsTask(c, title, isDaily)
    \/ \E c \in CategoryIds : otherDeletesCategory(c)

SpecLoad == InitLoad /\ [][NextLoad]_vars

(* ------------------------ category calls that succeed ------------------ *)
(* A signed-in user whose store holds the category an earlier addCategory *)
(* made calls addCategory, deleteCategory and reorderCategories one at a   *)
(* time, and every remote call succeeds.                                   *)
InitCategories ==
    /\ now = 0
    /\ tz \in TzOffsets
    /\ userId = "u1"
    /\ dbCategories = <<[id |-> 0, user_id |-> "u1", title |-> "c", order_index |-> 0]>>
    /\ categories = MapSeq(dbCategories, mappedCategory)
    /\ tasks = << >>
    /\ dbTasks = << >>
    /\ history = << >>
    /\ nextCategoryId = 1
    /\ nextTaskId = 1
    /\ calls = 0
    /\ rendered = Analytics(<< >>, << >>)
    /\ last = Settled("mount", "resolved", FALSE, FALSE, FALSE)
    /\ inflight = {}
    /\ storage = NoStorage
    /\ auth = NoAuth

Succeeded == last'.outcome = "resolved" /\ ~last'.err /\ ~last'.aerr

NextCategories ==
    \/ (\E title \in CategoryTitles : addCategory(title)) /\ Succeeded
    \/ (\E c \in 0..MaxCategories : deleteCategory(c)) /\ Succeeded
    \/ (\E p \in Permutations_(categories) : reorderCategories(p)) /\ Succeeded

SpecCategories == InitCategories /\ [][NextCategories]_vars

(* ------------------------------ useAuth -------------------------------- *)
(* The useAuth hook with autoFetch: its user, loading and error states,    *)
(* the session the Supabase client holds, and the calls of fetchUser and   *)
(* logout that await the auth service.                                     *)
AuthCall(op) == [op |-> op]

(* const isAuthenticated = useMemo(() => Boolean(user), [user]).           *)
isAuthenticated(a) == a.user # NoUser

InitAuth ==
    /\ now = 0
    /\ tz = 0
    /\ userId = NoUser
    /\ categories = << >>
    /\ tasks = << >>
    /\ dbCategories = << >>
    /\ dbTasks = << >>
    /\ history = << >>
    /\ nextCategoryId = 1
    /\ nextTaskId = 1
    /\ calls = 0
    /\ rendered = Analytics(<< >>, << >>)
    /\ last = Settled("mount", "pending", FALSE, FALSE, FALSE)
    /\ inflight = {AuthCall("fetchUser")}
    /\ storage = NoStorage
    /\ \E session \in AsyncUsers \cup {NoUser} : auth = [NoAuth EXCEPT !.session = session]

AuthFixed ==
    UNCHANGED <<now, tz, userId, categories, tasks, dbCategories, dbTasks, history,
                nextCategoryId, nextTaskId, rendered, storage>>

AuthCalled == calls < MaxAuthCalls /\ calls' = calls + 1

(* refresh(): fetchUser up to its await.                                   *)
fetchUserStarts ==
    /\ AuthCalled
    /\ auth' = [auth EXCEPT !.loading = TRUE, !.error = FALSE]
    /\ inflight' = inflight \cup {AuthCall("fetchUser")}
    /\ last' = Settled("fetchUser", "pending", FALSE, FALSE, FALSE)
    /\ AuthFixed

(* getCurrentUser() is answered with the session's user, or it throws.     *)
fetchUserSettles(p) ==
    \E ok \in BOOLEAN :
    /\ p.op = "fetchUser"
    /\ auth' = IF ok THEN [auth EXCEPT !.user = auth.session, !.loading = FALSE]
               ELSE [auth EXCEPT !.user = NoUser, !.error = TRUE, !.loading = FALSE]
    /\ inflight' = inflight \ {p}
    /\ last' = Settled("fetchUser", "resolved", ~ok, FALSE, FALSE)
    /\ UNCHANGED calls
    /\ AuthFixed

(* A sign-in on the login screen: the client holds the session and the     *)
(* hook's listener is called with its user.                                *)
authSignedIn(user) ==
    /\ AuthCalled
    /\ auth' = [auth EXCEPT !.session = user, !.user = user, !.loading = FALSE]
    /\ last' = Settled("onAuthStateChange", "resolved", FALSE, FALSE, FALSE)
    /\ UNCHANGED inflight
    /\ AuthFixed

(* logout() up to its await.                                               *)
logoutStarts ==
    /\ AuthCalled
    /\ inflight' = inflight \cup {AuthCall("logout")}
    /\ last' = Settled("logout", "pending", FALSE, FALSE, FALSE)
    /\ UNCHANGED auth
    /\ AuthFixed

(* A logout whose catch block leaves the user as it is.                    *)
loggedOutOnlyOnSuccess(a, ok) ==
    IF ok THEN [a EXCEPT !.session = NoUser, !.user = NoUser, !.loading = FALSE,
                         !.error = FALSE]
    ELSE a

(* logout after authService.signOut(): when it succeeded the session is    *)
(* gone, the listener was called with null, and user and error are         *)
(* cleared; when it threw, the catch block clears the user.                *)
loggedOut(a, ok) ==
    IF ok THEN [a EXCEPT !.session = NoUser, !.user = NoUser, !.loading = FALSE,
                         !.error = FALSE]
    ELSE [a EXCEPT !.user = NoUser]

logoutSettles(p) ==
    \E ok \in BOOLEAN :
    /\ p.op = "logout"
    /\ auth' = loggedOut(auth, ok)
    /\ inflight' = inflight \ {p}
    /\ last' = Settled("logout", "resolved", ~ok, FALSE, FALSE)
    /\ UNCHANGED calls
    /\ AuthFixed

NextAuth ==
    \/ fetchUserStarts
    \/ \E p \in inflight : fetchUserSettles(p)
    \/ \E user \in AsyncUsers : authSignedIn(user)
    \/ logoutStarts
    \/ \E p \in inflight : logoutSettles(p)

SpecAuth == InitAuth /\ [][NextAuth]_vars

(* ------------------------------ rollover ------------------------------- *)
(* A step that is one rollover check of a signed-in user.                  *)
IsCheck(l) == l.op = "checkAndResetDailyTasks"

(* The local task of the given id is (not) completed, when it is there.    *)
LocalCompleted(tks, id, b) ==
    \A j \in 1..Len(tks) : tks[j].id = id => tks[j].isCompleted = b

RemoteCompleted(db, id, b) ==
    \A j \in 1..Len(db) : db[j].id = id => db[j].is_completed = b

(* C1: two rollover checks in succession on the same local calendar date,  *)
(* neither meeting a remote error: the second leaves the local tasks and   *)
(* the remote task rows as the first left them.                            *)
C1_SecondCheckIsNoOp ==
    [][(/\ IsCheck(last) /\ ~last.err
        /\ IsCheck(last') /\ ~last'.err
        /\ userId # NoUser
        /\ toDateString(now') = toDateString(now))
       => (tasks' = tasks /\ dbTasks' = dbTasks)]_vars

(* C2: a daily task that is completed and was last completed on a local    *)
(* calendar date before today is not completed after a rollover check      *)
(* that met no remote error, locally and remotely.                         *)
C2_StaleDailyIsReset ==
    [][(IsCheck(last') /\ ~last'.err /\ userId # NoUser)
       => \A i \in 1..Len(tasks) :
            (/\ tasks[i].isDaily
             /\ tasks[i].isCompleted
             /\ \E d \in tasks[i].lastCompletedDate :
                    toDateString(d) < toDateString(now'))
            => (/\ LocalCompleted(tasks', tasks[i].id, FALSE)
                /\ RemoteCompleted(dbTasks', tasks[i].id, FALSE))]_vars

(* C3: a daily task completed today (local date) is still completed after  *)
(* a rollover check in which other tasks were stale and were reset,        *)
(* locally and remotely.                                                   *)
C3_TodaysDailyStaysCompleted ==
    [][(IsCheck(last') /\ last'.reset)
       => \A i \in 1..Len(tasks) :
            (/\ tasks[i].isDaily
             /\ tasks[i].isCompleted
             /\ \E d \in tasks[i].lastCompletedDate :
                    toDateString(d) = toDateString(now'))
            => (/\ LocalCompleted(tasks', tasks[i].id, TRUE)
                /\ RemoteCompleted(dbTasks', tasks[i].id, TRUE))]_vars

(* A rollover check keeps isCompleted and lastCompletedDate of the tasks   *)
(* and rows that are not daily.                                            *)
RolloverFrame ==
    IsCheck(last')
    => /\ \A i \in 1..Len(tasks), j \in 1..Len(tasks') :
            (~tasks[i].isDaily /\ tasks'[j].id = tasks[i].id)
            => /\ tasks'[j].isCompleted = tasks[i].isCompleted
               /\ tasks'[j].lastCompletedDate = tasks[i].lastCompletedDate
       /\ Len(dbTasks') = Len(dbTasks)
       /\ \A i \in 1..Len(dbTasks) :
            ~dbTasks[i].is_daily
            => /\ dbTasks'[i].id = dbTasks[i].id
               /\ dbTasks'[i].is_completed = dbTasks[i].is_completed
               /\ dbTasks'[i].last_completed_date = dbTasks[i].last_completed_date

(* checkDailyReset of the store's tasks, at any instant and after any last *)
(* reset date, keeps the tasks that are not daily as they are.             *)
LocalResetFrame ==
    \A t \in 0..MaxTime, d \in -1..MaxTime :
        LET lastResetDate == IF d < 0 THEN NoDate ELSE DateAt(toDateString(d))
            reset == checkDailyReset(tasks, lastResetDate, t).tasks
        IN  /\ Len(reset) = Len(tasks)
            /\ \A i \in 1..Len(tasks) : ~tasks[i].isDaily => reset[i] = tasks[i]

(* C4: a rollover check changes neither isCompleted nor lastCompletedDate  *)
(* of a task that is not daily, in the local store or in the remote row;   *)
(* nor does the device-storage provider's checkDailyReset, whatever date   *)
(* it last reset on.                                                       *)
C4_NonDailyUntouched == [][RolloverFrame]_vars /\ []LocalResetFrame

(* A check has reset stale tasks while the store held a completed task     *)
(* that is not daily and was completed before today's UTC date.            *)
C4_Witness ==
    /\ IsCheck(last) /\ last.reset /\ ~last.err
    /\ \E i \in 1..Len(tasks) :
        /\ ~tasks[i].isDaily
        /\ tasks[i].isCompleted
        /\ TimestampLtDate(tasks[i].lastCompletedDate, toISODate(now))
        /\ RemoteCompleted(dbTasks, tasks[i].id, TRUE)

(* ------------------------------ analytics ------------------------------ *)
Rendered == last.op = "analytics"

(* C5: the daily stats derived from a task list have completed + missed =  *)
(* total, total being the length of the list, and percentage 0 when the    *)
(* list is empty.                                                          *)
C5_DailyStatsAddUp ==
    Rendered
    => LET s == rendered.dailyStats
       IN  /\ s.total = Len(tasks)
           /\ s.completed + s.missed = s.total
           /\ (s.total = 0 => s.percentage = 0)

(* Stats were derived from a list with completed and missed tasks, some of *)
(* the missed ones not daily.                                              *)
C5_Witness ==
    /\ Rendered
    /\ rendered.dailyStats.completed > 0
    /\ rendered.dailyStats.missed > 0
    /\ \E i \in 1..Len(tasks) : ~tasks[i].isDaily /\ ~tasks[i].isCompleted

(* C6: for a task list that is not empty the daily percentage is           *)
(* 100 * completed / total rounded half-up, lies in 0..100, is 100 exactly *)
(* when every task is completed and 0 exactly when the share is below one  *)
(* half percent.                                                           *)
C6_PercentageIsRoundedHalfUp ==
    (Rendered /\ rendered.dailyStats.total > 0)
    => LET s == rendered.dailyStats
       IN  /\ s.percentage = RoundedShare(s.completed, s.total)
           /\ s.percentage \in 0..100
           /\ (s.percentage = 100 <=> s.completed = s.total)
           /\ (s.percentage = 0 <=> 200 * s.completed < s.total)

(* C7: the category stats hold one entry per category of the store, in the *)
(* store's order, each counting the tasks of that category only; a         *)
(* category without tasks gets total 0, completed 0 and percentage 0.      *)
C7_CategoryStatsPerCategory ==
    Rendered
    => LET cs == rendered.categoryStats
       IN  /\ Len(cs) = Len(categories)
           /\ \A i \in 1..Len(categories) :
                LET own == {j \in 1..Len(tasks) : tasks[j].categoryId = categories[i].id}
                    done == {j \in own : tasks[j].isCompleted}
                IN  /\ cs[i].id = categories[i].id
                    /\ cs[i].title = categories[i].title
                    /\ cs[i].total = Cardinality(own)
                    /\ cs[i].completed = Cardinality(done)
                    /\ (own = {} => cs[i].percentage = 0)

(* Stats were derived for two categories, the first without tasks and the  *)
(* second with completed ones.                                             *)
C7_Witness ==
    /\ Rendered
    /\ Len(rendered.categoryStats) = 2
    /\ rendered.categoryStats[1].total = 0
    /\ rendered.categoryStats[2].completed > 0

(* ------------------------------- history ------------------------------- *)
AtMostOnePerDay(hist) ==
    \A i, j \in 1..Len(hist) :
        (hist[i].user_id = hist[j].user_id /\ hist[i].date = hist[j].date) => i = j

(* C8: the history never holds two entries of one user and date, and after *)
(* an operation has recorded analytics there is exactly one entry of the   *)
(* user and the day, carrying the counts of that last recording.           *)
C8_HistoryUpsert ==
    [][/\ AtMostOnePerDay(history')
       /\ last'.saved # "none"
          => LET mine == {i \in 1..Len(history') :
                            /\ history'[i].user_id = userId
                            /\ history'[i].date = toISODate(now')}
                 rows == SelectTasks(dbTasks', userId)
             IN  /\ Cardinality(mine) = 1
                 /\ \A i \in mine :
                      /\ history'[i].total_tasks = Len(rows)
                      /\ history'[i].completed_tasks =
                            Len(SelectSeq(rows, LAMBDA r : r.is_completed))]_vars

(* A toggle recorded the day's analytics over an entry of the same day     *)
(* that carried other values.                                              *)
C8_Witness ==
    /\ last.op = "toggleTask"
    /\ last.saved = "replaced"
    /\ Len(history) = 1

(* ------------------------------- reorder ------------------------------- *)
(* C9: after reorderCategories(list) has completed, the stored order index *)
(* of the category at position i of list is i, counted from 0, so the      *)
(* order indices of the user's categories are pairwise distinct.           *)
C9_ReorderStoresPositions ==
    [][(last'.op = "reorderCategories" /\ userId # NoUser)
       => /\ \A i \in 1..Len(categories'), k \in 1..Len(dbCategories') :
                dbCategories'[k].id = categories'[i].id
                => dbCategories'[k].order_index = i - 1
          /\ \A j, k \in 1..Len(dbCategories') :
                (/\ dbCategories'[j].user_id = userId
                 /\ dbCategories'[k].user_id = userId
                 /\ dbCategories'[j].order_index = dbCategories'[k].order_index)
                => j = k]_vars

(* ---------------------------- failed writes ---------------------------- *)
MutatingOps ==
    {"addCategory", "addTask", "updateTask", "toggleTask", "deleteTask", "deleteCategory"}

(* C10: when the remote call of addCategory, addTask, updateTask,          *)
(* toggleTask, deleteTask or deleteCategory fails, the promise rejects and *)
(* the local categories and tasks are what they were before the call.      *)
C10_FailedWriteLeavesStore ==
    [][(last'.op \in MutatingOps /\ last'.err)
       => /\ last'.outcome = "rejected"
          /\ categories' = categories
          /\ tasks' = tasks]_vars

(* A toggle of a task of the store was rejected after its update failed.   *)
C10_Witness ==
    /\ last.op = "toggleTask"
    /\ last.err
    /\ last.outcome = "rejected"
    /\ Len(tasks) > 0

(* C11: reorderCategories resolves and replaces the local category order   *)
(* only when every order-index write was confirmed: when one of the        *)
(* updates comes back with an error, the promise rejects and the local     *)
(* category list is the one before the call.                               *)
C11_ReorderRejectsOnError ==
    [][(last'.op = "reorderCategories" /\ last'.err)
       => /\ last'.outcome = "rejected"
          /\ categories' = categories]_vars

(* ------------------------------- sign-out ------------------------------ *)
(* C12: when the auth listener reports that the session is gone, the       *)
(* categories and the tasks of the store become empty and the current user *)
(* id becomes null.                                                        *)
C12_SignOutClearsStore ==
    [][onSignedOut
       => /\ categories' = << >>
          /\ tasks' = << >>
          /\ userId' = NoUser]_vars

(* The user whose remote rows include a task has been signed out.          *)
C12_Witness ==
    /\ last.op = "onAuthStateChange"
    /\ userId = NoUser
    /\ tasks = << >>
    /\ categories = << >>
    /\ dbTasks # << >>

(* -------------------------- recording analytics ------------------------ *)
(* C13: a toggleTask, addTask or deleteTask that succeeded and changed the *)
(* task list has issued save_daily_analytics before it resolved (the rpc   *)
(* wrote the day's entry or came back with an error).                      *)
C13_MutationsRecordAnalytics ==
    [][(/\ last'.op \in {"toggleTask", "addTask", "deleteTask"}
        /\ last'.outcome = "resolved"
        /\ ~last'.err
        /\ tasks' # tasks)
       => (last'.saved # "none" \/ last'.aerr)]_vars

(* The toggle of one task of the store is applied locally and remotely.    *)
ToggleApplied ==
    \E id \in TaskIds :
        /\ \E i \in 1..Len(tasks) : tasks[i].id = id
        /\ Len(tasks') = Len(tasks)
        /\ \A i \in 1..Len(tasks) :
            /\ tasks'[i].id = tasks[i].id
            /\ tasks'[i].isCompleted =
                 IF tasks[i].id = id THEN ~tasks[i].isCompleted ELSE tasks[i].isCompleted
        /\ RemoteCompleted(dbTasks', id, ~find(tasks, id).isCompleted)

DeleteTaskApplied ==
    \E id \in TaskIds :
        /\ tasks' = SelectSeq(tasks, LAMBDA x : x.id # id)
        /\ dbTasks' = SelectSeq(dbTasks, LAMBDA r : r.id # id)

DeleteCategoryApplied ==
    \E id \in CategoryIds :
        /\ categories' = SelectSeq(categories, LAMBDA c : c.id # id)
        /\ tasks' = SelectSeq(tasks, LAMBDA x : x.categoryId # id)
        /\ dbCategories' = SelectSeq(dbCategories, LAMBDA r : r.id # id)
        /\ dbTasks' = SelectSeq(dbTasks, LAMBDA r : r.category_id # id)

(* C14: when save_daily_analytics fails inside toggleTask, deleteTask or   *)
(* deleteCategory, the operation resolves and its change is applied to     *)
(* the store and to the remote rows.                                       *)
C14_AnalyticsFailureIsSwallowed ==
    [][(last'.aerr /\ last'.op \in {"toggleTask", "deleteTask", "deleteCategory"})
       => /\ last'.outcome = "resolved"
          /\ last'.op = "toggleTask" => ToggleApplied
          /\ last'.op = "deleteTask" => DeleteTaskApplied
          /\ last'.op = "deleteCategory" => DeleteCategoryApplied]_vars

(* A toggle completed a task, locally and remotely, while its analytics    *)
(* rpc failed.                                                             *)
C14_Witness ==
    /\ last.op = "toggleTask"
    /\ last.aerr
    /\ last.outcome = "resolved"
    /\ \E i \in 1..Len(tasks) :
        /\ tasks[i].isCompleted
        /\ \E j \in 1..Len(dbTasks) :
            dbTasks[j].id = tasks[i].id /\ dbTasks[j].is_completed

(* --------------------------- failed reset write ------------------------ *)
(* A rollover check of a signed-in user found stale tasks and its reset    *)
(* update came back with an error.                                         *)
ResetWriteFailed ==
    /\ IsCheck(last')
    /\ userId # NoUser
    /\ Len(tasksToReset(tasks, now')) > 0
    /\ last'.err
    /\ ~last'.reset

(* C18: when the reset update of a rollover check fails, the store and the *)
(* remote rows are what they were before the check, and every task the     *)
(* check found stale is found stale again by a check at any later instant. *)
C18_FailedResetKeepsStore ==
    [][ResetWriteFailed
       => /\ tasks' = tasks
          /\ categories' = categories
          /\ dbTasks' = dbTasks
          /\ \A t \in now'..MaxTime :
                \A i \in 1..Len(tasksToReset(tasks, now')) :
                    tasksToReset(tasks, now')[i] \in Range(tasksToReset(tasks', t))]_vars

(* A check failed at its reset update while the store held a completed     *)
(* daily task last completed on an earlier local date.                     *)
C18_Witness ==
    /\ IsCheck(last)
    /\ last.err
    /\ ~last.reset
    /\ \E i \in 1..Len(tasks) :
        /\ tasks[i].isDaily
        /\ tasks[i].isCompleted
        /\ \E d \in tasks[i].lastCompletedDate : toDateString(d) < toDateString(now)

(* ------------------------------- sign-in ------------------------------- *)
(* The store holds a completed daily task that was last completed on a     *)
(* local calendar date before the one of instant t.                        *)
HoldsStaleTask(tks, t) ==
    \E i \in 1..Len(tks) :
        /\ tks[i].isDaily
        /\ tks[i].isCompleted
        /\ \E d \in tks[i].lastCompletedDate : toDateString(d) < toDateString(t)

(* C15: after a sign-in, when the load it started and the rollover check   *)
(* started by the change of the user id have both completed without a      *)
(* remote error, in either order, the store holds no completed daily task  *)
(* that was last completed on an earlier calendar date.                    *)
C15_SignInLeavesNoStaleTask ==
    [][(/\ last'.op = "onAuthStateChange"
        /\ userId = NoUser
        /\ userId' # NoUser
        /\ ~last'.err)
       => ~HoldsStaleTask(tasks', now')]_vars

(* ------------------------- operations in flight ------------------------ *)
(* C16: the store is empty while nobody is signed in, and every category   *)
(* and task of the store belongs to the signed-in user, also when a load   *)
(* is answered after its session has ended.                                *)
C16_StoreBelongsToUser ==
    /\ userId = NoUser => (categories = << >> /\ tasks = << >>)
    /\ \A i \in 1..Len(categories) : categories[i].userId = userId
    /\ \A i \in 1..Len(tasks) : tasks[i].userId = userId

(* C17: no update is lost between mutations issued without waiting: when   *)
(* a toggleTask of the signed-in user resolves over a store that still     *)
(* lists the tasks it was issued on, every task other than the toggled one *)
(* is in the store as it was just before, so what another toggle has set   *)
(* in the meantime is still there.                                         *)
SameTaskIds(a, b) ==
    /\ Len(a) = Len(b)
    /\ \A i \in 1..Len(a) : a[i].id = b[i].id

C17_NoLostUpdate ==
    [][\A p \in inflight :
        (/\ p.op = "toggleTask"
         /\ p \notin inflight'
         /\ last'.op = "toggleTask"
         /\ last'.outcome = "resolved"
         /\ userId = p.uid
         /\ SameTaskIds(tasks, p.tasks))
        => (/\ SameTaskIds(tasks', tasks)
            /\ \A i \in 1..Len(tasks) :
                tasks[i].id # p.taskId => tasks'[i] = tasks[i])]_vars

ResetTwiceIsResetOnce ==
    \A t1 \in 0..MaxTime : \A t2 \in t1..MaxTime :
        resetUpdate(resetUpdate(dbTasks, "u1", t1), "u1", t2) = resetUpdate(dbTasks, "u1", t2)

(* A row completed on the local date of instant t, at or after instant t0. *)
CompletedTodaySince(r, t0, t) ==
    /\ r.is_daily
    /\ r.is_completed
    /\ \E d \in r.last_completed_date : d >= t0 /\ toDateString(d) = toDateString(t)

(* While the check of another device that has applied its update is still  *)
(* running, the update of c leaves completed every daily row that was      *)
(* completed today since that first update.                                *)
SecondResetKeepsTodays ==
    \A c \in inflight : \A c1 \in inflight :
        (/\ c.call.pc = "update"
         /\ c \notin inflight'
         /\ last'.op = "checkAndResetDailyTasks"
         /\ last'.reset
         /\ c1.device # c.device
         /\ c1.call.reset)
        => \A i \in 1..Len(dbTasks) :
            CompletedTodaySince(dbTasks[i], c1.call.t, c.call.t)
            => RemoteCompleted(dbTasks', dbTasks[i].id, TRUE)

(* C20: two device sessions of one user that run the rollover reset        *)
(* concurrently leave the remote rows as a single reset would: the         *)
(* filtered update applied twice changes nothing the second time, and the  *)
(* second update never resets a daily task that was completed today        *)
(* between the two updates.                                                *)
C20_ConcurrentResetsAreOne ==
    [][SecondResetKeepsTodays]_vars /\ []ResetTwiceIsResetOnce

(* ------------------------------ task fields ---------------------------- *)
(* C21: every daily task that is completed has a lastCompletedDate, in the *)
(* store and in the remote rows, in every state the operations of the     *)
(* provider reach.                                                         *)
C21_CompletedDailyHasDate ==
    /\ \A i \in 1..Len(tasks) :
        (tasks[i].isDaily /\ tasks[i].isCompleted) => tasks[i].lastCompletedDate # NoDate
    /\ \A j \in 1..Len(dbTasks) :
        (dbTasks[j].is_daily /\ dbTasks[j].is_completed)
        => dbTasks[j].last_completed_date # NoDate

(* A completed daily task is in the store after a load that succeeded.     *)
C21_Witness ==
    /\ last.op = "syncData"
    /\ ~last.err
    /\ \E i \in 1..Len(tasks) : tasks[i].isDaily /\ tasks[i].isCompleted

(* ------------------------------ categories ----------------------------- *)
(* The lists cats2 and tks2 are cats and tks without the category id and   *)
(* without its tasks, everything else as it was and in the same order.     *)
CategoryRemoved(cats, tks, cats2, tks2, id) ==
    /\ \A i \in 1..Len(cats2) : cats2[i].id # id
    /\ \A i \in 1..Len(tks2) : tks2[i].categoryId # id
    /\ cats2 = SelectSeq(cats, LAMBDA c : c.id # id)
    /\ tks2 = SelectSeq(tks, LAMBDA x : x.categoryId # id)

DeleteCategorySucceeded ==
    /\ userId # NoUser
    /\ last'.op = "deleteCategory"
    /\ last'.outcome = "resolved"
    /\ ~last'.err

LocalDeleteCascades ==
    \A id \in CategoryIds :
        LET r == localDeleteCategory(categories, tasks, id)
        IN  CategoryRemoved(categories, tasks, r.categories, r.tasks, id)

(* C23: after a successful deleteCategory(id) the store holds neither the  *)
(* category nor a task of it, and every other category and task is as it   *)
(* was; the same for the lists the device-storage provider saves.          *)
C23_DeleteCategoryCascades ==
    /\ [][DeleteCategorySucceeded
          => \E id \in CategoryIds :
                /\ dbCategories' = SelectSeq(dbCategories, LAMBDA r : r.id # id)
                /\ CategoryRemoved(categories, tasks, categories', tasks', id)]_vars
    /\ []LocalDeleteCascades

(* A category was deleted with a task of it while another category and a   *)
(* task of that one stay in the store.                                     *)
C23_Witness ==
    /\ last.op = "deleteCategory"
    /\ last.outcome = "resolved"
    /\ ~last.err
    /\ nextCategoryId = 3 /\ Len(categories) = 1
    /\ nextTaskId = 3 /\ Len(tasks) = 1 /\ Len(dbTasks) = 1

(* ------------------------------ failures ------------------------------- *)
(* C25: when a remote call inside a load of the store (syncData runs       *)
(* loadData) or inside checkAndResetDailyTasks fails, the promise of that  *)
(* operation rejects.                                                      *)
C25_LoadAndCheckFailuresReject ==
    (last.op \in {"syncData", "checkAndResetDailyTasks"} /\ last.err)
    => last.outcome = "rejected"

(* ------------------------------ mirror --------------------------------- *)
(* The store is what a load of the remote rows would set.                  *)
Mirror(uid, cats, tks, dbC, dbT) ==
    \E l \in loadData(uid, cats, tks, dbC, dbT) :
        ~l.err /\ l.categories = cats /\ l.tasks = tks

(* C29: a successful addCategory, addTask, updateTask, toggleTask,         *)
(* deleteTask, deleteCategory or reorderCategories on a store that mirrors *)
(* the remote rows leaves a store that mirrors them, every field included, *)
(* so that a load after it changes nothing.                                *)
C29_StoreMirrorsRemote ==
    [][(/\ userId # NoUser
        /\ Mirror(userId, categories, tasks, dbCategories, dbTasks)
        /\ last'.op \in MutatingOps \cup {"reorderCategories"}
        /\ last'.outcome = "resolved"
        /\ ~last'.err)
       => Mirror(userId, categories', tasks', dbCategories', dbTasks')]_vars

(* ----------------------- device storage at mount ----------------------- *)
(* Every call of the mount, and of the effects it led to, has ended.       *)
LocalSettled == inflight = {}

IdsOf(tks) == {tks[i].id : i \in 1..Len(tks)}

(* C22: un-completing keeps the date of the completion: a rollover reset   *)
(* of the device-storage provider leaves every completed daily task it     *)
(* resets with the lastCompletedDate the task had.                         *)
C22_ResetKeepsCompletionDate ==
    [][\A p \in inflight :
        (/\ p.op = "checkDailyReset"
         /\ p.pc = "resume"
         /\ p \notin inflight'
         /\ last'.op = "checkDailyReset"
         /\ last'.reset)
        => (/\ Len(tasks') = Len(p.tasks)
            /\ \A i \in 1..Len(p.tasks) :
                (p.tasks[i].isDaily /\ p.tasks[i].isCompleted)
                => tasks'[i].lastCompletedDate = p.tasks[i].lastCompletedDate)]_vars

(* C26: on a start on a later date than the stored lastResetDate, when all *)
(* that the mount started has settled, the persisted daily tasks are in    *)
(* the store and none of them is completed.                                *)
C26_DailyTasksResetAfterStart ==
    LocalSettled
    => (/\ 2 \in IdsOf(tasks)
        /\ \A i \in 1..Len(tasks) : tasks[i].isDaily => ~tasks[i].isCompleted)

(* C27: when all that the mount started has settled, the tasks persisted   *)
(* under "tasks" are those that were persisted before the start.           *)
C27_StartKeepsPersistedTasks ==
    LocalSettled => \E tks \in storage.tasks : IdsOf(tks) = {1, 2}

(* ------------------------------ loads ---------------------------------- *)
(* C24: after a load that succeeded every task of the store references a   *)
(* category of the store; a loaded task whose category was not loaded is   *)
(* not kept.                                                               *)
C24_LoadedTasksHaveCategory ==
    (last.op = "loadData" /\ last.outcome = "resolved" /\ ~last.err)
    => \A i \in 1..Len(tasks) :
          \E j \in 1..Len(categories) : categories[j].id = tasks[i].categoryId

(* ------------------------------ order indices -------------------------- *)
(* C28: after successful addCategory, deleteCategory and reorderCategories *)
(* calls issued one at a time, the remote order indices of the user's      *)
(* categories are pairwise distinct.                                       *)
C28_OrderIndicesDistinct ==
    \A i \in 1..Len(dbCategories) : \A j \in 1..Len(dbCategories) :
        (/\ i # j
         /\ dbCategories[i].user_id = userId
         /\ dbCategories[j].user_id = userId)
        => dbCategories[i].order_index # dbCategories[j].order_index

(* ------------------------------ logout --------------------------------- *)
(* C30: when logout() settles it has resolved, and the hook's user is null *)
(* and isAuthenticated is false, whether signOut succeeded or threw.       *)
C30_LogoutClearsUser ==
    [][(last'.op = "logout" /\ last'.outcome # "pending")
       => (/\ last'.outcome = "resolved"
           /\ auth'.user = NoUser
           /\ ~isAuthenticated(auth'))]_vars

(* A logout has resolved after signOut threw, the session still held.      *)
C30_Witness ==
    /\ last.op = "logout"
    /\ last.outcome = "resolved"
    /\ last.err
    /\ auth.session # NoUser
    /\ auth.user = NoUser
====
